---- MODULE Spec2Model ----
(***************************************************************************)
(* Symphony storage core: the paged SparseSet (sparse index), the          *)
(* DenseArray (packed record store), their composition PackedArray and the *)
(* IndirectionTable (slot allocator).                                      *)
(*                                                                         *)
(* Containers are modelled as records; every member function is an         *)
(* operator from the object's value (and the call's arguments) to the      *)
(* object's value after the call, translated statement by statement.       *)
(* A failed assert() aborts the process (neither build configuration       *)
(* defines NDEBUG); undefined behaviour (null bucket dereference, access   *)
(* outside the dense key array) is recorded in the object's "ub" field and *)
(* ends the run: nothing is assumed about what follows it.                 *)
(***************************************************************************)
EXTENDS Integers, Sequences, FiniteSets, TLC

VARIABLES
    m_sparseSet,    \* SparseSet object (PackedArray::m_sparseSet, or a free-standing one)
    m_denseArray,   \* DenseArray object (PackedArray::m_denseArray)
    fault,          \* "none", "assert" (an assert() aborted the process) or "ub"
    live,           \* history: key -> payload of the calls so far (see LiveAdd/LiveRemove)
    last,           \* the last call made: its name, key, whether the key was live, its result
    calls,          \* number of calls made so far
    m_indirection,  \* IndirectionTable::m_indirection
    m_freeList,     \* IndirectionTable::m_freeList
    m_denseSize     \* IndirectionTable::m_denseSize

\* the members of the IndirectionTable
tvars == <<m_indirection, m_freeList, m_denseSize>>

vars == <<m_sparseSet, m_denseArray, fault, live, last, calls, m_indirection, m_freeList, m_denseSize>>

-----------------------------------------------------------------------------
(* Sizes.  The bucket size and the width of size_t are scaled down; every   *)
(* expression over them is the source's.                                    *)

SPARSE_BUCKET_SHIFT == 2
SPARSE_BUCKET_SIZE == 2 ^ SPARSE_BUCKET_SHIFT

SizeBits == 16
SizeMod == 2 ^ SizeBits
\* std::numeric_limits<Value> all-ones, the value of value_or(-1)
InvalidValue == SizeMod - 1

\* Bounds of the explored inputs.
MaxKey == 4
MaxCalls == 5
\* keys and calls of the SparseSet's caller once the set was filled (SpecFill)
MaxFillKey == 7
MaxOps == 4
\* calls of the caller that passes its own values to SparseSet (SpecVal)
MaxValCalls == 4
\* keys, positions and calls of the DenseArray's caller (SpecDA)
MaxDenseKey == 2
MaxDenseCalls == 5
\* slot arguments and calls of the IndirectionTable's caller
MaxSlot == 2
MaxTableCalls == 7

Keys == 0 .. MaxKey
FillKeys == 0 .. MaxFillKey
Slots == 0 .. MaxSlot
DenseKeys == 0 .. MaxDenseKey
\* two keys of page 0 and the first key of page 1
ValKeys == {0, 1, SPARSE_BUCKET_SIZE}
\* the values a caller passes to Insert: zero, a small one and the largest Value
Values == {0, 1, InvalidValue}
\* the constructor arguments: initialCapacity and growFactor (default: the last of each)
InitialCapacities == {0, 1, SPARSE_BUCKET_SIZE}
GrowFactors == {<<1, 2>>, <<1, 1>>, <<3, 2>>, <<2, 1>>}
\* a default-constructed Comp (the value of the static dummy of Get) and another one
DefaultComp == "default"
Comps == {DefaultComp, "x"}

\* unsigned size_t arithmetic
USub(a, b) == (a - b) % SizeMod

\* std::optional<Value>: <<>> is std::nullopt, <<v>> holds v
NullOpt == <<>>
Some(v) == <<v>>
ValueOr(opt, d) == IF opt = NullOpt THEN d ELSE opt[1]

-----------------------------------------------------------------------------
(* SparseSet::Bucket: parallel arrays m_keys / m_values of which the first  *)
(* m_size cells are in use; modelled by two sequences of length m_size.     *)

NewBucket == [null |-> FALSE, keys |-> <<>>, values |-> <<>>]
NullBucket == [null |-> TRUE, keys |-> <<>>, values |-> <<>>]

BucketSize(b) == Len(b.keys)

\* std::lower_bound over m_keys[0 .. m_size): the halving search, as the
\* library runs it whether or not the range is sorted.  0-based result.
RECURSIVE LowerBoundFrom(_, _, _, _)
LowerBoundFrom(keys, first, len, key) ==
    IF len = 0 THEN first
    ELSE LET half == len \div 2
             mid == first + half
         IN IF keys[mid + 1] < key
            THEN LowerBoundFrom(keys, mid + 1, len - half - 1, key)
            ELSE LowerBoundFrom(keys, first, half, key)

LowerBound(keys, key) == LowerBoundFrom(keys, 0, Len(keys), key)

\* std::binary_search: lower_bound, then !(key < *it)
BucketContains(b, key) ==
    LET it == LowerBound(b.keys, key)
    IN it # Len(b.keys) /\ ~(key < b.keys[it + 1])

BucketValue(b, key) ==
    LET it == LowerBound(b.keys, key)
    IN IF it # Len(b.keys) /\ b.keys[it + 1] = key
       THEN Some(b.values[it + 1])
       ELSE NullOpt

InsertAt(s, index, e) == SubSeq(s, 1, index) \o <<e>> \o SubSeq(s, index + 1, Len(s))
RemoveAt(s, index) == SubSeq(s, 1, index) \o SubSeq(s, index + 2, Len(s))

\* Bucket::Insert; index is 0-based as in the source
BucketInsert(b, key, value) ==
    IF BucketSize(b) >= SPARSE_BUCKET_SIZE THEN b
    ELSE LET index == LowerBound(b.keys, key)
         IN [b EXCEPT !.keys = InsertAt(b.keys, index, key),
                      !.values = InsertAt(b.values, index, value)]

BucketRemove(b, key) ==
    LET it == LowerBound(b.keys, key)
    IN IF it = Len(b.keys) \/ b.keys[it + 1] # key THEN b
       ELSE [b EXCEPT !.keys = RemoveAt(b.keys, it),
                      !.values = RemoveAt(b.values, it)]

\* Bucket::Distribute: <<this, other>> after the call
BucketDistribute(this, other) ==
    LET mid == BucketSize(this) \div 2
    IN << [this EXCEPT !.keys = SubSeq(this.keys, 1, mid),
                       !.values = SubSeq(this.values, 1, mid)],
          [other EXCEPT !.keys = SubSeq(this.keys, mid + 1, BucketSize(this)),
                        !.values = SubSeq(this.values, mid + 1, BucketSize(this))] >>

\* Bucket::Merge: this after the call (other is destroyed by the caller)
BucketMerge(this, other) ==
    [this EXCEPT !.keys = this.keys \o other.keys,
                 !.values = this.values \o other.values]

\* Bucket::Rebalance: <<this, other>> after the call
BucketRebalance(this, other) ==
    LET totalSize == BucketSize(this) + BucketSize(other)
        targetSize == totalSize \div 2
    IN IF BucketSize(this) < targetSize
       THEN LET entitiesToMove == targetSize - BucketSize(this)
            IN << [this EXCEPT !.keys = this.keys \o SubSeq(other.keys, 1, entitiesToMove),
                               !.values = this.values \o SubSeq(other.values, 1, entitiesToMove)],
                  [other EXCEPT !.keys = SubSeq(other.keys, entitiesToMove + 1, BucketSize(other)),
                                !.values = SubSeq(other.values, entitiesToMove + 1, BucketSize(other))] >>
       ELSE << [this EXCEPT !.keys = SubSeq(this.keys, 1, targetSize),
                            !.values = SubSeq(this.values, 1, targetSize)],
               [other EXCEPT !.keys = SubSeq(this.keys, targetSize + 1, BucketSize(this)) \o other.keys,
                             !.values = SubSeq(this.values, targetSize + 1, BucketSize(this)) \o other.values] >>

-----------------------------------------------------------------------------
(* SparseSet.  m_sparse is the std::map from bucket index to Bucket*; a     *)
(* NullBucket is a nullptr entry.  m_dense is modelled by its first m_size  *)
(* cells (a cell at or beyond m_size is always written before it is read);  *)
(* m_capacity is the allocated length.  m_growFactor is the float, kept as  *)
(* <<numerator, denominator>>.                                              *)

NewSparseSet(initialCapacity, growFactor) ==
    [sparse |-> <<>>, dense |-> <<>>, size |-> 0,
     capacity |-> initialCapacity, growFactor |-> growFactor, ub |-> FALSE]

\* the default arguments of the constructor
DefaultSparseSet == NewSparseSet(SPARSE_BUCKET_SIZE, <<2, 1>>)

Undefined(ss) == [ss EXCEPT !.ub = TRUE]

\* the page computed with a shift one too large
GetBucketIndexAndOffsetWide(entity) ==
    << entity \div (2 * SPARSE_BUCKET_SIZE), entity % SPARSE_BUCKET_SIZE >>

GetBucketIndexAndOffset(entity) ==
    << entity \div SPARSE_BUCKET_SIZE, entity % SPARSE_BUCKET_SIZE >>

\* the map after try_emplace(bucketIndex, nullptr) and the allocation
GetOrCreateBucket(sparse, bucketIndex) ==
    IF bucketIndex \in DOMAIN sparse THEN sparse
    ELSE [i \in DOMAIN sparse \cup {bucketIndex} |->
             IF i = bucketIndex THEN NewBucket ELSE sparse[i]]

\* the map after std::map::operator[] found no entry
MapIndex(sparse, bucketIndex) ==
    IF bucketIndex \in DOMAIN sparse THEN sparse
    ELSE [i \in DOMAIN sparse \cup {bucketIndex} |->
             IF i = bucketIndex THEN NullBucket ELSE sparse[i]]

MapErase(sparse, bucketIndex) ==
    [i \in DOMAIN sparse \ {bucketIndex} |-> sparse[i]]

SS_Size(ss) == ss.size
SS_Capacity(ss) == ss.capacity

\* Contains dereferences the mapped pointer without a null check
SS_ContainsUB(ss, entity) ==
    LET bi == GetBucketIndexAndOffset(entity)[1]
    IN bi \in DOMAIN ss.sparse /\ ss.sparse[bi].null

SS_Contains(ss, entity) ==
    LET bo == GetBucketIndexAndOffset(entity)
    IN /\ bo[1] \in DOMAIN ss.sparse
       /\ ~ss.sparse[bo[1]].null
       /\ BucketContains(ss.sparse[bo[1]], bo[2])

\* Get / operator[]: the mapped value, InvalidValue when there is none
SS_GetUB(ss, entity) == SS_ContainsUB(ss, entity)

SS_Get(ss, entity) ==
    LET bo == GetBucketIndexAndOffset(entity)
    IN IF bo[1] \in DOMAIN ss.sparse /\ ~ss.sparse[bo[1]].null
       THEN ValueOr(BucketValue(ss.sparse[bo[1]], bo[2]), InvalidValue)
       ELSE InvalidValue

SS_Resize(ss, newCapacity) ==
    IF newCapacity < ss.capacity THEN ss
    ELSE [ss EXCEPT !.capacity = newCapacity]

\* m_capacity * m_growFactor, converted back to size_t
GrownCapacity(ss) == (ss.capacity * ss.growFactor[1]) \div ss.growFactor[2]

\* Insert: [ss |-> the object after the call, ret |-> the returned size_t]
SS_Insert(ss, entity, value) ==
    LET bo == GetBucketIndexAndOffset(entity)
        bucketIndex == bo[1]
        offset == bo[2]
        s1 == [ss EXCEPT !.sparse = GetOrCreateBucket(ss.sparse, bucketIndex)]
        bucket == s1.sparse[bucketIndex]
    IN IF ss.ub THEN [ss |-> ss, ret |-> InvalidValue]
       ELSE IF bucket.null THEN [ss |-> s1, ret |-> s1.size]
       ELSE IF BucketContains(bucket, offset)
       THEN [ss |-> s1, ret |-> ValueOr(BucketValue(bucket, offset), InvalidValue)]
       ELSE
       LET full == BucketSize(bucket) >= SPARSE_BUCKET_SIZE
           m2 == IF full THEN GetOrCreateBucket(s1.sparse, bucketIndex + 1) ELSE s1.sparse
           split == full /\ ~m2[bucketIndex + 1].null
           d == BucketDistribute(bucket, m2[bucketIndex + 1])
           m3 == IF split
                 THEN [m2 EXCEPT ![bucketIndex] = d[1], ![bucketIndex + 1] = d[2]]
                 ELSE m2
           s3 == [s1 EXCEPT !.sparse = m3]
           s4 == IF s3.size = s3.capacity THEN SS_Resize(s3, GrownCapacity(s3)) ELSE s3
       IN IF s4.size >= s4.capacity
          THEN [ss |-> Undefined(s4), ret |-> InvalidValue]    \* m_dense[m_size] out of bounds
          ELSE [ss |-> [s4 EXCEPT !.dense = Append(s4.dense, entity),
                                  !.sparse[bucketIndex] = BucketInsert(m3[bucketIndex], offset, value),
                                  !.size = s4.size + 1],
                ret |-> s4.size]

\* the tail of Remove without the merge / rebalance
SS_UnderfilledKept(sparse, bucketIndex) == sparse

\* the tail of Remove merging without the check of the combined size
SS_UnderfilledMerged(sparse, bucketIndex) ==
    IF /\ BucketSize(sparse[bucketIndex]) < SPARSE_BUCKET_SIZE \div 2
       /\ (bucketIndex + 1) \in DOMAIN sparse
       /\ ~sparse[bucketIndex + 1].null
    THEN MapErase([sparse EXCEPT ![bucketIndex] =
                       BucketMerge(sparse[bucketIndex], sparse[bucketIndex + 1])],
                  bucketIndex + 1)
    ELSE sparse

\* the merge / rebalance tail of Remove
SS_Underfilled(sparse, bucketIndex) ==
    IF /\ BucketSize(sparse[bucketIndex]) < SPARSE_BUCKET_SIZE \div 2
       /\ (bucketIndex + 1) \in DOMAIN sparse
       /\ ~sparse[bucketIndex + 1].null
    THEN LET bucket == sparse[bucketIndex]
             nextBucket == sparse[bucketIndex + 1]
         IN IF BucketSize(bucket) + BucketSize(nextBucket) <= SPARSE_BUCKET_SIZE
            THEN MapErase([sparse EXCEPT ![bucketIndex] = BucketMerge(bucket, nextBucket)],
                          bucketIndex + 1)
            ELSE LET r == BucketRebalance(bucket, nextBucket)
                 IN [sparse EXCEPT ![bucketIndex] = r[1], ![bucketIndex + 1] = r[2]]
    ELSE sparse

\* Remove: the object after the call
SS_Remove(ss, entity) ==
    LET bo == GetBucketIndexAndOffset(entity)
        bucketIndex == bo[1]
        offset == bo[2]
        s1 == [ss EXCEPT !.sparse = GetOrCreateBucket(ss.sparse, bucketIndex)]
        bucket == s1.sparse[bucketIndex]
        removedIndexOpt == BucketValue(bucket, offset)
    IN IF ss.ub THEN ss
       ELSE IF bucket.null THEN s1
       ELSE IF removedIndexOpt = NullOpt THEN s1
       ELSE
       LET removedIndex == removedIndexOpt[1]
           swap == removedIndex # USub(s1.size, 1)
       IN IF swap /\ (USub(s1.size, 1) >= s1.capacity \/ removedIndex >= s1.capacity)
          THEN Undefined(s1)                         \* m_dense accessed out of bounds
          ELSE
          LET lastKey == s1.dense[s1.size]
              lbo == GetBucketIndexAndOffset(lastKey)
              dense2 == IF swap /\ removedIndex < s1.size
                        THEN [s1.dense EXCEPT ![removedIndex + 1] = lastKey]
                        ELSE s1.dense
              m2 == IF swap THEN MapIndex(s1.sparse, lbo[1]) ELSE s1.sparse
              m3 == IF swap /\ ~m2[lbo[1]].null
                    THEN [m2 EXCEPT ![lbo[1]] =
                             BucketInsert(BucketRemove(m2[lbo[1]], lbo[2]), lbo[2], removedIndex)]
                    ELSE m2
              m4 == [m3 EXCEPT ![bucketIndex] = BucketRemove(m3[bucketIndex], offset)]
              m5 == SS_Underfilled(m4, bucketIndex)
              size2 == USub(s1.size, 1)
          IN [s1 EXCEPT !.sparse = m5,
                        !.dense = SubSeq(dense2, 1, IF size2 < Len(dense2) THEN size2 ELSE Len(dense2)),
                        !.size = size2]

\* Clear that resets m_size without emptying the page map
SS_ClearKeepsBuckets(ss) == IF ss.ub THEN ss ELSE [ss EXCEPT !.dense = <<>>, !.size = 0]

\* Clear that also hands the dense array back
SS_ClearReleases(ss) ==
    IF ss.ub THEN ss ELSE [ss EXCEPT !.sparse = <<>>, !.dense = <<>>, !.size = 0, !.capacity = 0]

SS_Clear(ss) == IF ss.ub THEN ss ELSE [ss EXCEPT !.sparse = <<>>, !.dense = <<>>, !.size = 0]

\* Iterator: m_densePtr as an index into m_dense.  begin() starts it at
\* m_dense, end() at m_dense + m_size; operator* reads the key *m_densePtr,
\* operator++ and operator-- step it, operator== compares m_densePtr only.
\* (m_sparsePtr, the Value half of the pair, is initialised from the page map
\* m_sparse and is not modelled.)
IteratorBegin(ss) == 0
IteratorEnd(ss) == ss.size
IteratorKey(ss, it) == ss.dense[it + 1]

RECURSIVE IterateForward(_, _)
\* for (it = from; it != end(); ++it) visit *it
IterateForward(ss, it) ==
    IF it = IteratorEnd(ss) THEN <<>>
    ELSE <<IteratorKey(ss, it)>> \o IterateForward(ss, it + 1)

RECURSIVE IterateBackward(_, _)
\* for (it = from; it != begin(); ) visit *--it
IterateBackward(ss, it) ==
    IF it = IteratorBegin(ss) THEN <<>>
    ELSE <<IteratorKey(ss, it - 1)>> \o IterateBackward(ss, it - 1)

-----------------------------------------------------------------------------
(* DenseArray: m_components, m_keyToIndex (std::unordered_map) and          *)
(* m_indexToKey.  Indices are 0-based as in the source; sequences are       *)
(* 1-based.  ok = FALSE when the call's assert() failed.                    *)

NewDenseArray == [components |-> <<>>, keyToIndex |-> <<>>, indexToKey |-> <<>>]

DA_Size(da) == Len(da.components)

MapPut(m, key, v) == [k \in DOMAIN m \cup {key} |-> IF k = key THEN v ELSE m[k]]

DA_Add(da, key, component) ==
    IF key \in DOMAIN da.keyToIndex
    THEN [da |-> da, ok |-> FALSE]
    ELSE [da |-> [components |-> Append(da.components, component),
                  keyToIndex |-> MapPut(da.keyToIndex, key, Len(da.components)),
                  indexToKey |-> Append(da.indexToKey, key)],
          ok |-> TRUE]

\* Remove that moves the last record without rewriting its key's position
DA_RemoveStale(da, key) ==
    IF key \notin DOMAIN da.keyToIndex
    THEN [da |-> da, ok |-> FALSE]
    ELSE LET indexToRemove == da.keyToIndex[key]
             n == Len(da.components)
             moved == indexToRemove # n - 1
             lastKey == da.indexToKey[Len(da.indexToKey)]
             comps == IF moved
                      THEN [da.components EXCEPT ![indexToRemove + 1] = da.components[n]]
                      ELSE da.components
             i2k == IF moved THEN [da.indexToKey EXCEPT ![indexToRemove + 1] = lastKey]
                    ELSE da.indexToKey
         IN [da |-> [components |-> SubSeq(comps, 1, n - 1),
                     keyToIndex |-> [k \in DOMAIN da.keyToIndex \ {key} |-> da.keyToIndex[k]],
                     indexToKey |-> SubSeq(i2k, 1, Len(i2k) - 1)],
             ok |-> TRUE]

DA_Remove(da, key) ==
    IF key \notin DOMAIN da.keyToIndex
    THEN [da |-> da, ok |-> FALSE]
    ELSE LET indexToRemove == da.keyToIndex[key]
             n == Len(da.components)
             moved == indexToRemove # n - 1
             lastKey == da.indexToKey[Len(da.indexToKey)]
             comps == IF moved
                      THEN [da.components EXCEPT ![indexToRemove + 1] = da.components[n],
                                                 ![n] = da.components[indexToRemove + 1]]
                      ELSE da.components
             k2i == IF moved THEN MapPut(da.keyToIndex, lastKey, indexToRemove)
                    ELSE da.keyToIndex
             i2k == IF moved THEN [da.indexToKey EXCEPT ![indexToRemove + 1] = lastKey]
                    ELSE da.indexToKey
         IN [da |-> [components |-> SubSeq(comps, 1, n - 1),
                     keyToIndex |-> [k \in DOMAIN k2i \ {key} |-> k2i[k]],
                     indexToKey |-> SubSeq(i2k, 1, Len(i2k) - 1)],
             ok |-> TRUE]

\* GetByIndex that checks index <= size and gives a default record at size
DA_GetByIndexInclusive(da, index) ==
    IF index < Len(da.components) THEN <<da.components[index + 1]>>
    ELSE IF index = Len(da.components) THEN <<DefaultComp>>
    ELSE <<>>

\* GetByIndex / GetKeyAtIndex: <<>> when the assert fails
DA_GetByIndex(da, index) ==
    IF index < Len(da.components) THEN <<da.components[index + 1]>> ELSE <<>>

DA_GetKeyAtIndex(da, index) ==
    IF index < Len(da.indexToKey) THEN <<da.indexToKey[index + 1]>> ELSE <<>>

-----------------------------------------------------------------------------
(* PackedArray: m_sparseSet and m_denseArray.  Every operator gives         *)
(* [ss, da, fault]: the two members after the call and how the call ended.  *)

PA_Result(ss, da, f) ==
    [ss |-> ss, da |-> da, fault |-> IF ss.ub THEN "ub" ELSE f]

PA_Size(da) == DA_Size(da)

PA_Add(ss, da, entity, component) ==
    IF SS_ContainsUB(ss, entity) THEN PA_Result(Undefined(ss), da, "ub")
    ELSE IF SS_Contains(ss, entity) THEN PA_Result(ss, da, "none")
    ELSE LET index == DA_Size(da)
             ss1 == SS_Insert(ss, entity, index).ss
             add == DA_Add(da, index, component)
         IN IF ss1.ub THEN PA_Result(ss1, da, "ub")
            ELSE PA_Result(ss1, add.da, IF add.ok THEN "none" ELSE "assert")

PA_Remove(ss, da, entity) ==
    LET index == SS_Get(ss, entity)
    IN IF SS_GetUB(ss, entity) THEN PA_Result(Undefined(ss), da, "ub")
       ELSE IF index = 0 THEN PA_Result(ss, da, "none")
       ELSE LET rem == DA_Remove(da, index)
            IN IF ~rem.ok THEN PA_Result(ss, da, "assert")
               ELSE LET da1 == rem.da
                        relink == index < DA_Size(da1)
                        lastEntity == DA_GetKeyAtIndex(da1, DA_Size(da1) - 1)[1]
                        ss1 == IF relink THEN SS_Remove(ss, lastEntity) ELSE ss
                        ss2 == IF relink THEN SS_Insert(ss1, lastEntity, index).ss ELSE ss1
                        ss3 == SS_Remove(ss2, entity)
                    IN PA_Result(ss3, da1, "none")

\* Get: what the returned reference refers to
PA_Get(ss, da, entity) ==
    LET index == SS_Get(ss, entity)
    IN IF SS_GetUB(ss, entity) THEN [kind |-> "ub", rec |-> "", val |-> 0]
       ELSE IF index = 0 THEN [kind |-> "dummy", rec |-> DefaultComp, val |-> 0]
       ELSE IF DA_GetByIndex(da, index) = <<>> THEN [kind |-> "assert", rec |-> "", val |-> 0]
       ELSE [kind |-> "record", rec |-> DA_GetByIndex(da, index)[1], val |-> index]

-----------------------------------------------------------------------------
(* IndirectionTable<Index>: m_indirection (std::vector<std::optional<Index>>,*)
(* Undirected = std::nullopt), m_freeList and m_denseSize.  Slot indices are *)
(* 0-based as in the source; sequences are 1-based.  ok = FALSE when the     *)
(* call's assert() failed.                                                   *)

Undirected == NullOpt

NewIndirectionTable == [indirection |-> <<>>, freeList |-> <<>>, denseSize |-> 0]

IT_Size(t) == Len(t.indirection)
IT_DenseSize(t) == t.denseSize

\* Next: [t |-> the table after the call, ret |-> the returned Index]
IT_Next(t) ==
    IF t.freeList # <<>>
    THEN LET index == t.freeList[Len(t.freeList)]
         IN [t |-> [indirection |-> [t.indirection EXCEPT ![index + 1] = Some(t.denseSize)],
                    freeList |-> SubSeq(t.freeList, 1, Len(t.freeList) - 1),
                    denseSize |-> (t.denseSize + 1) % SizeMod],
             ret |-> index]
    ELSE [t |-> [indirection |-> Append(t.indirection, Some(t.denseSize)),
                 freeList |-> t.freeList,
                 denseSize |-> (t.denseSize + 1) % SizeMod],
          ret |-> t.denseSize]

IT_Erase(t, index) ==
    IF ~(index < Len(t.indirection))
    THEN [t |-> t, ok |-> FALSE]
    ELSE [t |-> [t EXCEPT !.freeList = Append(t.freeList, index),
                          !.indirection[index + 1] = Undirected],
          ok |-> TRUE]

IT_Put(t, sparseIndex, denseIndex) ==
    IF ~(sparseIndex < Len(t.indirection))
    THEN [t |-> t, ok |-> FALSE]
    ELSE [t |-> [t EXCEPT !.indirection[sparseIndex + 1] = Some(denseIndex)],
          ok |-> TRUE]

\* Clear without m_freeList.clear()
IT_ClearKeepsFreeList(t) == [t EXCEPT !.denseSize = 0, !.indirection = <<>>]

IT_Clear(t) == [t EXCEPT !.denseSize = 0, !.freeList = <<>>, !.indirection = <<>>]

\* At without the bounds assert: a default optional for a slot out of range
IT_AtUnchecked(t, sparseIndex) ==
    IF ~(sparseIndex < Len(t.indirection))
    THEN [t |-> t, ok |-> TRUE, ret |-> Undirected]
    ELSE [t |-> t, ok |-> TRUE, ret |-> t.indirection[sparseIndex + 1]]

\* At: const; ret is the std::optional<Index> returned
IT_At(t, sparseIndex) ==
    IF ~(sparseIndex < Len(t.indirection))
    THEN [t |-> t, ok |-> FALSE, ret |-> Undirected]
    ELSE [t |-> t, ok |-> TRUE, ret |-> t.indirection[sparseIndex + 1]]

-----------------------------------------------------------------------------
(* History kept beside the program state: which keys the calls made so far  *)
(* have added and not removed, each with the payload of the call that added *)
(* it (the record for PackedArray, the value for SparseSet).                *)

LiveAdd(l, key, payload) == IF key \in DOMAIN l THEN l ELSE MapPut(l, key, payload)
LiveRemove(l, key) == [k \in DOMAIN l \ {key} |-> l[k]]

Void == [kind |-> "void", rec |-> "", val |-> 0]
Returned(v) == [kind |-> "value", rec |-> "", val |-> v]
Call(op, key, ret) == [op |-> op, key |-> key, hit |-> key \in DOMAIN live, ret |-> ret]

-----------------------------------------------------------------------------
(* Spec: a PackedArray<Entity, Comp> driven by its caller.                  *)

Init ==
    /\ m_sparseSet = DefaultSparseSet
    /\ m_denseArray = NewDenseArray
    /\ fault = "none"
    /\ live = <<>>
    /\ last = [op |-> "none", key |-> 0, hit |-> FALSE, ret |-> Void]
    /\ calls = 0
    /\ m_indirection = NewIndirectionTable.indirection
    /\ m_freeList = NewIndirectionTable.freeList
    /\ m_denseSize = NewIndirectionTable.denseSize

PAAdd(entity, component) ==
    /\ fault = "none"
    /\ calls < MaxCalls
    /\ calls' = calls + 1
    /\ LET r == PA_Add(m_sparseSet, m_denseArray, entity, component)
       IN /\ m_sparseSet' = r.ss
          /\ m_denseArray' = r.da
          /\ fault' = r.fault
    /\ live' = LiveAdd(live, entity, component)
    /\ last' = Call("Add", entity, Void)
    /\ UNCHANGED tvars

PARemove(entity) ==
    /\ fault = "none"
    /\ calls < MaxCalls
    /\ calls' = calls + 1
    /\ LET r == PA_Remove(m_sparseSet, m_denseArray, entity)
       IN /\ m_sparseSet' = r.ss
          /\ m_denseArray' = r.da
          /\ fault' = r.fault
    /\ live' = LiveRemove(live, entity)
    /\ last' = Call("Remove", entity, Void)
    /\ UNCHANGED tvars

PAGet(entity) ==
    /\ fault = "none"
    /\ calls < MaxCalls
    /\ calls' = calls + 1
    /\ LET r == PA_Get(m_sparseSet, m_denseArray, entity)
       IN /\ fault' = IF r.kind \in {"ub", "assert"} THEN r.kind ELSE "none"
          /\ last' = Call("Get", entity, r)
    /\ UNCHANGED <<m_sparseSet, m_denseArray, live, tvars>>

Next ==
    \/ \E entity \in Keys, component \in Comps : PAAdd(entity, component)
    \/ \E entity \in Keys : PARemove(entity)
    \/ \E entity \in Keys : PAGet(entity)

Spec == Init /\ [][Next]_vars

-----------------------------------------------------------------------------
(* SpecSS: a free-standing SparseSet<Key, size_t>, default constructed.     *)
(* Insert is passed the current Size() as the value, the way PackedArray    *)
(* (PackedArray.h:18-19) uses the index; live maps a key to that value.     *)

SSInsert(entity) ==
    /\ fault = "none"
    /\ calls < MaxCalls
    /\ calls' = calls + 1
    /\ LET r == SS_Insert(m_sparseSet, entity, SS_Size(m_sparseSet))
       IN /\ m_sparseSet' = r.ss
          /\ fault' = IF r.ss.ub THEN "ub" ELSE "none"
          /\ last' = Call("Insert", entity, Returned(r.ret))
    /\ live' = LiveAdd(live, entity, SS_Size(m_sparseSet))
    /\ UNCHANGED <<m_denseArray, tvars>>

SSRemove(entity) ==
    /\ fault = "none"
    /\ calls < MaxCalls
    /\ calls' = calls + 1
    /\ LET ss == SS_Remove(m_sparseSet, entity)
       IN /\ m_sparseSet' = ss
          /\ fault' = IF ss.ub THEN "ub" ELSE "none"
    /\ live' = LiveRemove(live, entity)
    /\ last' = Call("Remove", entity, Void)
    /\ UNCHANGED <<m_denseArray, tvars>>

SSContains(entity) ==
    /\ fault = "none"
    /\ calls < MaxCalls
    /\ calls' = calls + 1
    /\ IF SS_ContainsUB(m_sparseSet, entity)
       THEN /\ m_sparseSet' = Undefined(m_sparseSet)
            /\ fault' = "ub"
            /\ last' = Call("Contains", entity, Void)
       ELSE /\ UNCHANGED <<m_sparseSet, fault>>
            /\ last' = Call("Contains", entity,
                            Returned(IF SS_Contains(m_sparseSet, entity) THEN 1 ELSE 0))
    /\ UNCHANGED <<m_denseArray, live, tvars>>

SSClear ==
    /\ fault = "none"
    /\ calls < MaxCalls
    /\ calls' = calls + 1
    /\ m_sparseSet' = SS_Clear(m_sparseSet)
    /\ live' = <<>>
    /\ last' = [op |-> "Clear", key |-> 0, hit |-> FALSE, ret |-> Void]
    /\ UNCHANGED <<m_denseArray, fault, tvars>>

NextSS ==
    \/ \E entity \in Keys : SSInsert(entity)
    \/ \E entity \in Keys : SSRemove(entity)
    \/ \E entity \in Keys : SSContains(entity)
    \/ SSClear

SpecSS == Init /\ [][NextSS]_vars

-----------------------------------------------------------------------------
(* SpecFill: a default-constructed SparseSet<Key, size_t> that its caller   *)
(* first fills with the keys 0, 1, 2, ... in ascending order (any number of *)
(* them, up to MaxFillKey + 1) and then uses freely for MaxOps calls.       *)
(* Every Insert is passed the current Size() as the value.  calls counts    *)
(* the calls made after the fill.                                           *)

FillInsert ==
    /\ fault = "none"
    /\ calls = 0
    /\ SS_Size(m_sparseSet) <= MaxFillKey
    /\ LET entity == SS_Size(m_sparseSet)
           r == SS_Insert(m_sparseSet, entity, SS_Size(m_sparseSet))
       IN /\ m_sparseSet' = r.ss
          /\ fault' = IF r.ss.ub THEN "ub" ELSE "none"
          /\ last' = Call("Insert", entity, Returned(r.ret))
          /\ live' = LiveAdd(live, entity, SS_Size(m_sparseSet))
    /\ UNCHANGED <<m_denseArray, calls, tvars>>

OpInsert(entity) ==
    /\ fault = "none"
    /\ calls < MaxOps
    /\ calls' = calls + 1
    /\ LET r == SS_Insert(m_sparseSet, entity, SS_Size(m_sparseSet))
       IN /\ m_sparseSet' = r.ss
          /\ fault' = IF r.ss.ub THEN "ub" ELSE "none"
          /\ last' = Call("Insert", entity, Returned(r.ret))
    /\ live' = LiveAdd(live, entity, SS_Size(m_sparseSet))
    /\ UNCHANGED <<m_denseArray, tvars>>

OpRemove(entity) ==
    /\ fault = "none"
    /\ calls < MaxOps
    /\ calls' = calls + 1
    /\ LET ss == SS_Remove(m_sparseSet, entity)
       IN /\ m_sparseSet' = ss
          /\ fault' = IF ss.ub THEN "ub" ELSE "none"
    /\ live' = LiveRemove(live, entity)
    /\ last' = Call("Remove", entity, Void)
    /\ UNCHANGED <<m_denseArray, tvars>>

NextFill ==
    \/ FillInsert
    \/ \E entity \in FillKeys : OpInsert(entity)
    \/ \E entity \in FillKeys : OpRemove(entity)

SpecFill == Init /\ [][NextFill]_vars

-----------------------------------------------------------------------------
(* SpecVal: a free-standing SparseSet<Key, Value> constructed with any of   *)
(* the argument pairs above and driven by a caller that passes its own      *)
(* values to Insert.  live maps a key to the value it was inserted with;    *)
(* last.pre is the SparseSet before the call, last.arg the value passed.    *)

ValCall(op, key, value, ret) ==
    [op |-> op, key |-> key, hit |-> key \in DOMAIN live, ret |-> ret,
     pre |-> m_sparseSet, arg |-> value]

InitVal ==
    /\ \E initialCapacity \in InitialCapacities, growFactor \in GrowFactors :
          /\ m_sparseSet = NewSparseSet(initialCapacity, growFactor)
          /\ last = [op |-> "none", key |-> 0, hit |-> FALSE, ret |-> Void,
                     pre |-> NewSparseSet(initialCapacity, growFactor), arg |-> 0]
    /\ m_denseArray = NewDenseArray
    /\ fault = "none"
    /\ live = <<>>
    /\ calls = 0
    /\ m_indirection = NewIndirectionTable.indirection
    /\ m_freeList = NewIndirectionTable.freeList
    /\ m_denseSize = NewIndirectionTable.denseSize

ValInsert(entity, value) ==
    /\ fault = "none"
    /\ calls < MaxValCalls
    /\ calls' = calls + 1
    /\ LET r == SS_Insert(m_sparseSet, entity, value)
       IN /\ m_sparseSet' = r.ss
          /\ fault' = IF r.ss.ub THEN "ub" ELSE "none"
          /\ last' = ValCall("Insert", entity, value, Returned(r.ret))
    /\ live' = LiveAdd(live, entity, value)
    /\ UNCHANGED <<m_denseArray, tvars>>

ValRemove(entity) ==
    /\ fault = "none"
    /\ calls < MaxValCalls
    /\ calls' = calls + 1
    /\ LET ss == SS_Remove(m_sparseSet, entity)
       IN /\ m_sparseSet' = ss
          /\ fault' = IF ss.ub THEN "ub" ELSE "none"
    /\ live' = LiveRemove(live, entity)
    /\ last' = ValCall("Remove", entity, 0, Void)
    /\ UNCHANGED <<m_denseArray, tvars>>

ValGet(entity) ==
    /\ fault = "none"
    /\ calls < MaxValCalls
    /\ calls' = calls + 1
    /\ IF SS_GetUB(m_sparseSet, entity)
       THEN /\ m_sparseSet' = Undefined(m_sparseSet)
            /\ fault' = "ub"
            /\ last' = ValCall("Get", entity, 0, Void)
       ELSE /\ last' = ValCall("Get", entity, 0, Returned(SS_Get(m_sparseSet, entity)))
            /\ UNCHANGED <<m_sparseSet, fault>>
    /\ UNCHANGED <<m_denseArray, live, tvars>>

ValClear ==
    /\ fault = "none"
    /\ calls < MaxValCalls
    /\ calls' = calls + 1
    /\ m_sparseSet' = SS_Clear(m_sparseSet)
    /\ live' = <<>>
    /\ last' = ValCall("Clear", 0, 0, Void)
    /\ UNCHANGED <<m_denseArray, fault, tvars>>

NextVal ==
    \/ \E entity \in ValKeys, value \in Values : ValInsert(entity, value)
    \/ \E entity \in ValKeys : ValRemove(entity)
    \/ \E entity \in ValKeys : ValGet(entity)
    \/ ValClear

SpecVal == InitVal /\ [][NextVal]_vars

-----------------------------------------------------------------------------
(* SpecDA: a free-standing DenseArray<Key, Comp> driven by its caller, with *)
(* any key and any position.  live maps a key to the record it was added    *)
(* with; last.pre is the DenseArray before the call.                        *)

DenseCall(op, key, ret) ==
    [op |-> op, key |-> key, hit |-> key \in DOMAIN live, ret |-> ret, pre |-> m_denseArray]

Record(r, index) == [kind |-> "record", rec |-> r, val |-> index]

InitDA ==
    /\ m_sparseSet = DefaultSparseSet
    /\ m_denseArray = NewDenseArray
    /\ fault = "none"
    /\ live = <<>>
    /\ last = [op |-> "none", key |-> 0, hit |-> FALSE, ret |-> Void, pre |-> NewDenseArray]
    /\ calls = 0
    /\ m_indirection = NewIndirectionTable.indirection
    /\ m_freeList = NewIndirectionTable.freeList
    /\ m_denseSize = NewIndirectionTable.denseSize

DAAdd(key, component) ==
    /\ fault = "none"
    /\ calls < MaxDenseCalls
    /\ calls' = calls + 1
    /\ LET r == DA_Add(m_denseArray, key, component)
       IN /\ m_denseArray' = r.da
          /\ fault' = IF r.ok THEN "none" ELSE "assert"
          /\ live' = IF r.ok THEN LiveAdd(live, key, component) ELSE live
    /\ last' = DenseCall("Add", key, Void)
    /\ UNCHANGED <<m_sparseSet, tvars>>

DARemove(key) ==
    /\ fault = "none"
    /\ calls < MaxDenseCalls
    /\ calls' = calls + 1
    /\ LET r == DA_Remove(m_denseArray, key)
       IN /\ m_denseArray' = r.da
          /\ fault' = IF r.ok THEN "none" ELSE "assert"
          /\ live' = IF r.ok THEN LiveRemove(live, key) ELSE live
    /\ last' = DenseCall("Remove", key, Void)
    /\ UNCHANGED <<m_sparseSet, tvars>>

DAGetByIndex(index) ==
    /\ fault = "none"
    /\ calls < MaxDenseCalls
    /\ calls' = calls + 1
    /\ LET r == DA_GetByIndex(m_denseArray, index)
       IN /\ fault' = IF r = <<>> THEN "assert" ELSE "none"
          /\ last' = DenseCall("GetByIndex", index, IF r = <<>> THEN Void ELSE Record(r[1], index))
    /\ UNCHANGED <<m_sparseSet, m_denseArray, live, tvars>>

DAGetKeyAtIndex(index) ==
    /\ fault = "none"
    /\ calls < MaxDenseCalls
    /\ calls' = calls + 1
    /\ LET r == DA_GetKeyAtIndex(m_denseArray, index)
       IN /\ fault' = IF r = <<>> THEN "assert" ELSE "none"
          /\ last' = DenseCall("GetKeyAtIndex", index, IF r = <<>> THEN Void ELSE Returned(r[1]))
    /\ UNCHANGED <<m_sparseSet, m_denseArray, live, tvars>>

NextDA ==
    \/ \E key \in DenseKeys, component \in Comps : DAAdd(key, component)
    \/ \E key \in DenseKeys : DARemove(key)
    \/ \E index \in DenseKeys : DAGetByIndex(index)
    \/ \E index \in DenseKeys : DAGetKeyAtIndex(index)

SpecDA == InitDA /\ [][NextDA]_vars

-----------------------------------------------------------------------------
(* SpecIT: an IndirectionTable<size_t> driven by its caller, with any slot  *)
(* argument (held, erased, never handed out).  live is the caller's view:   *)
(* an identifier returned by Next maps to the dense index it was given,     *)
(* and to Undirected from the Erase of it until Next returns it again.      *)
(* last.pre is the table, and last.was the caller's view, before the call.  *)

Table == [indirection |-> m_indirection, freeList |-> m_freeList, denseSize |-> m_denseSize]

\* the identifiers the caller holds / has erased and not been handed again
Held(l) == {i \in DOMAIN l : l[i] # Undirected}
Awaiting(l) == {i \in DOMAIN l : l[i] = Undirected}

Optional(opt) ==
    IF opt = Undirected THEN [kind |-> "nullopt", rec |-> "", val |-> 0] ELSE Returned(opt[1])

TableCall(op, key, ret) ==
    [op |-> op, key |-> key, hit |-> key \in Held(live), ret |-> ret,
     pre |-> Table, was |-> live]

InitIT ==
    /\ m_sparseSet = DefaultSparseSet
    /\ m_denseArray = NewDenseArray
    /\ fault = "none"
    /\ live = <<>>
    /\ last = [op |-> "none", key |-> 0, hit |-> FALSE, ret |-> Void,
               pre |-> NewIndirectionTable, was |-> <<>>]
    /\ calls = 0
    /\ m_indirection = NewIndirectionTable.indirection
    /\ m_freeList = NewIndirectionTable.freeList
    /\ m_denseSize = NewIndirectionTable.denseSize

SetTable(t) ==
    /\ m_indirection' = t.indirection
    /\ m_freeList' = t.freeList
    /\ m_denseSize' = t.denseSize

ITNext ==
    /\ fault = "none"
    /\ calls < MaxTableCalls
    /\ calls' = calls + 1
    /\ LET r == IT_Next(Table)
       IN /\ SetTable(r.t)
          /\ live' = MapPut(live, r.ret, Some(IT_DenseSize(Table)))
          /\ last' = TableCall("Next", r.ret, Returned(r.ret))
    /\ UNCHANGED <<m_sparseSet, m_denseArray, fault>>

ITErase(index) ==
    /\ fault = "none"
    /\ calls < MaxTableCalls
    /\ calls' = calls + 1
    /\ LET r == IT_Erase(Table, index)
       IN /\ SetTable(r.t)
          /\ fault' = IF r.ok THEN "none" ELSE "assert"
          /\ live' = IF r.ok /\ index \in DOMAIN live
                     THEN [live EXCEPT ![index] = Undirected]
                     ELSE live
    /\ last' = TableCall("Erase", index, Void)
    /\ UNCHANGED <<m_sparseSet, m_denseArray>>

ITPut(sparseIndex, denseIndex) ==
    /\ fault = "none"
    /\ calls < MaxTableCalls
    /\ calls' = calls + 1
    /\ LET r == IT_Put(Table, sparseIndex, denseIndex)
       IN /\ SetTable(r.t)
          /\ fault' = IF r.ok THEN "none" ELSE "assert"
          /\ live' = IF r.ok /\ sparseIndex \in Held(live)
                     THEN [live EXCEPT ![sparseIndex] = Some(denseIndex)]
                     ELSE live
    /\ last' = TableCall("Put", sparseIndex, Void)
    /\ UNCHANGED <<m_sparseSet, m_denseArray>>

ITAt(sparseIndex) ==
    /\ fault = "none"
    /\ calls < MaxTableCalls
    /\ calls' = calls + 1
    /\ LET r == IT_At(Table, sparseIndex)
       IN /\ SetTable(r.t)
          /\ fault' = IF r.ok THEN "none" ELSE "assert"
          /\ last' = TableCall("At", sparseIndex, Optional(r.ret))
    /\ UNCHANGED <<m_sparseSet, m_denseArray, live>>

ITClear ==
    /\ fault = "none"
    /\ calls < MaxTableCalls
    /\ calls' = calls + 1
    /\ SetTable(IT_Clear(Table))
    /\ live' = <<>>
    /\ last' = TableCall("Clear", 0, Void)
    /\ UNCHANGED <<m_sparseSet, m_denseArray, fault>>

NextIT ==
    \/ ITNext
    \/ \E index \in Slots : ITErase(index)
    \/ \E sparseIndex \in Slots, denseIndex \in Slots : ITPut(sparseIndex, denseIndex)
    \/ \E sparseIndex \in Slots : ITAt(sparseIndex)
    \/ ITClear

SpecIT == InitIT /\ [][NextIT]_vars

-----------------------------------------------------------------------------
(* Properties of PackedArray (checked under Spec).                          *)

\* what Get(entity) gives in the current state
GetNow(entity) == PA_Get(m_sparseSet, m_denseArray, entity)
\* Get(entity) gives a reference to a record equal to r
GetsRecord(entity, r) == GetNow(entity).kind \in {"record", "dummy"} /\ GetNow(entity).rec = r
\* Get(entity) gives a record of the store
Retrievable(entity) == GetNow(entity).kind = "record"

\* C1: after every Add/Remove, Size() is the number of Adds of a new key minus
\* the number of Removes of a present key (the number of live keys), and the
\* records fill the positions [0, Size()) of the store.
C1_SizeIsLiveCount ==
    fault = "none" =>
        /\ PA_Size(m_denseArray) = Cardinality(DOMAIN live)
        /\ DOMAIN m_denseArray.components = 1 .. PA_Size(m_denseArray)
        /\ Len(m_denseArray.indexToKey) = PA_Size(m_denseArray)

\* C2: from Add(k, r) of an absent key until Remove(k), Get(k) returns a record
\* equal to r, whatever dense position k occupies (position 0 included).
C2_RoundTrip ==
    fault = "none" => \A k \in DOMAIN live : GetsRecord(k, live[k])

\* C3: Remove(k) of a present key of a store of n >= 2 keys leaves exactly the
\* other n-1 keys retrievable, each with its record, k not retrievable, and
\* Size() = n-1.
C3_RemoveLeavesTheOthers ==
    (fault = "none" /\ last.op = "Remove" /\ last.hit /\ Cardinality(DOMAIN live) >= 1) =>
        /\ \A j \in DOMAIN live : Retrievable(j) /\ GetNow(j).rec = live[j]
        /\ ~Retrievable(last.key)
        /\ PA_Size(m_denseArray) = Cardinality(DOMAIN live)

\* C4: Remove(k) of a present key at a position p that is not the last one moves
\* the record of the key that was at position Size()-1, and no other, to p,
\* rewrites that key's sparse entry to p, keeps every other key's position, and
\* Get of the moved key returns its own record.
C4_SwapRemove ==
    [][ \A k \in DOMAIN live, e \in DOMAIN live :
          ( /\ last'.op = "Remove" /\ last'.key = k /\ fault' = "none"
            /\ SS_Get(m_sparseSet, k) # PA_Size(m_denseArray) - 1
            /\ SS_Get(m_sparseSet, e) = PA_Size(m_denseArray) - 1 )
          => /\ SS_Get(m_sparseSet', e) = SS_Get(m_sparseSet, k)
             /\ PA_Get(m_sparseSet', m_denseArray', e).kind = "record"
             /\ PA_Get(m_sparseSet', m_denseArray', e).rec = live[e]
             /\ \A j \in DOMAIN live \ {k, e} :
                    SS_Get(m_sparseSet', j) = SS_Get(m_sparseSet, j) ]_vars

\* C5: Add(k, r) of a key that is already present changes nothing: Size(), the
\* record of k and the position and record of every other key stay.
C5_AddPresentIsNoOp ==
    [][ (last'.op = "Add" /\ last'.hit) =>
            /\ fault' = "none"
            /\ m_sparseSet' = m_sparseSet
            /\ m_denseArray' = m_denseArray ]_vars

\* C6: Remove(k) of a key that is not present raises no failure and changes
\* neither Size(), nor the sparse index, nor a stored record.
C6_RemoveAbsentIsNoOp ==
    [][ (last'.op = "Remove" /\ ~last'.hit) =>
            /\ fault' = "none"
            /\ m_sparseSet' = m_sparseSet
            /\ m_denseArray' = m_denseArray ]_vars

\* C7: Get(k) fails for a key that is not present, never returns the shared
\* placeholder, and returns a stored record exactly when k is present.
C7_GetFailsFast ==
    fault = "none" =>
        \A k \in Keys :
            /\ GetNow(k).kind # "dummy"
            /\ (k \in DOMAIN live) <=> Retrievable(k)
            /\ (k \notin DOMAIN live) => GetNow(k).kind = "assert"

-----------------------------------------------------------------------------
(* Properties of SparseSet (checked under SpecSS).                          *)

\* C8: the SparseSet is a set of keys: Contains(k) is true exactly when k was
\* inserted and not removed since, whatever merges and rebalances happened.
C8_ContainsIsMembership ==
    fault = "none" =>
        \A k \in Keys : SS_Contains(m_sparseSet, k) <=> k \in DOMAIN live

\* C9: Insert of a key that is already present, with another value, changes
\* neither the mapped value, nor Size(), nor the dense keys, and returns the
\* existing mapping.
C9_InsertIsIdempotent ==
    [][ (last'.op = "Insert" /\ last'.hit) =>
            /\ fault' = "none"
            /\ m_sparseSet' = m_sparseSet
            /\ last'.ret.val = SS_Get(m_sparseSet, last'.key) ]_vars

\* C10: Remove of a key that is not present leaves the index as it is: Size(),
\* the dense keys, every bucket's entries and the set of existing buckets.
C10_RemoveAbsentKeepsIndex ==
    [][ (last'.op = "Remove" /\ ~last'.hit) => m_sparseSet' = m_sparseSet ]_vars

-----------------------------------------------------------------------------
(* Properties of the buckets of SparseSet (checked under SpecFill, C13      *)
(* under SpecSS).                                                           *)

\* the pages that have a bucket / a bucket with entries
ExistingBuckets(ss) == {i \in DOMAIN ss.sparse : ~ss.sparse[i].null}
OccupiedBuckets(ss) == {i \in ExistingBuckets(ss) : BucketSize(ss.sparse[i]) > 0}

HalfCapacity == SPARSE_BUCKET_SIZE \div 2

C12_BucketWithinCapacity ==
    \A i \in ExistingBuckets(m_sparseSet) :
        /\ BucketSize(m_sparseSet.sparse[i]) <= SPARSE_BUCKET_SIZE
        /\ Len(m_sparseSet.sparse[i].values) = Len(m_sparseSet.sparse[i].keys)

\* a Remove merged bucket 1 into bucket 0 and filled it to its capacity
C12_Witness ==
    /\ last.op = "Remove"
    /\ fault = "none"
    /\ ExistingBuckets(m_sparseSet) = {0}
    /\ BucketSize(m_sparseSet.sparse[0]) = SPARSE_BUCKET_SIZE
    /\ \E k \in DOMAIN live : k >= SPARSE_BUCKET_SIZE

StrictlyIncreasing(seq) == \A i, j \in DOMAIN seq : i < j => seq[i] < seq[j]

\* C13: the entries of every bucket are sorted by offset, strictly increasing
\* (no offset twice), also right after a Distribute, a Merge and a Rebalance.
C13_BucketsSorted ==
    fault = "none" =>
        \A i \in ExistingBuckets(m_sparseSet) : StrictlyIncreasing(m_sparseSet.sparse[i].keys)

\* the keys 0 .. n were inserted in ascending order into the empty set, n
\* being SPARSE_BUCKET_SIZE or SPARSE_BUCKET_SIZE + 1
AscendingFill ==
    /\ calls = 0
    /\ last.op = "Insert"
    /\ last.key \in {SPARSE_BUCKET_SIZE, SPARSE_BUCKET_SIZE + 1}

AllContained ==
    \A k \in 0 .. last.key :
        SS_Contains(m_sparseSet, k) /\ SS_Get(m_sparseSet, k) = k

\* C14: once the keys 0 .. C (and C+1) were inserted in ascending order into
\* the empty set, bucket 0 has split: it keeps the keys 0 .. C/2-1, the
\* entries of the keys C/2 .. C-1 are in bucket 1, and every inserted key is
\* contained with its value.
C14_AscendingFillSplits ==
    AscendingFill =>
        /\ fault = "none"
        /\ m_sparseSet.sparse[0].keys = [i \in 1 .. HalfCapacity |-> i - 1]
        /\ 1 \in ExistingBuckets(m_sparseSet)
        /\ \A k \in HalfCapacity .. SPARSE_BUCKET_SIZE - 1 :
               \E i \in DOMAIN m_sparseSet.sparse[1].values : m_sparseSet.sparse[1].values[i] = k
        /\ AllContained

\* C14 as amended: once the keys 0 .. C (and C+1) were inserted in ascending
\* order into the empty set, bucket 0 has not split: it holds the keys
\* 0 .. C-1, bucket 1 holds the keys from C on (the keys of its page) and
\* nothing else, and every inserted key is contained with its value.
C14_AscendingFillKeepsPages ==
    AscendingFill =>
        /\ fault = "none"
        /\ ExistingBuckets(m_sparseSet) = {0, 1}
        /\ m_sparseSet.sparse[0].keys = [i \in 1 .. SPARSE_BUCKET_SIZE |-> i - 1]
        /\ m_sparseSet.sparse[0].values = [i \in 1 .. SPARSE_BUCKET_SIZE |-> i - 1]
        /\ m_sparseSet.sparse[1].keys = [i \in 1 .. last.key - SPARSE_BUCKET_SIZE + 1 |-> i - 1]
        /\ m_sparseSet.sparse[1].values =
               [i \in 1 .. last.key - SPARSE_BUCKET_SIZE + 1 |-> SPARSE_BUCKET_SIZE + i - 1]
        /\ m_sparseSet.dense = [i \in 1 .. last.key + 1 |-> i - 1]
        /\ AllContained

\* the keys 0 .. C+1 were inserted
C14_Witness ==
    /\ AscendingFill
    /\ last.key = SPARSE_BUCKET_SIZE + 1
    /\ SS_Size(m_sparseSet) = SPARSE_BUCKET_SIZE + 2
    /\ fault = "none"

-----------------------------------------------------------------------------
(* Properties of PackedArray as a whole (checked under Spec).               *)

\* C23: a call that fails on an assertion leaves the container exactly as it
\* was before the call: neither the sparse index nor the packed store has
\* changed.
C23_FailingCallIsAtomic ==
    [][fault' = "assert" => (m_sparseSet' = m_sparseSet /\ m_denseArray' = m_denseArray)]_vars

\* C24: a key is contained in the sparse index exactly when the index maps
\* it to a position below Size(), distinct contained keys map to distinct
\* positions, and the positions of the contained keys are all of
\* 0 .. Size() - 1.
C24_IndexIsBijection ==
    ~m_sparseSet.ub =>
        LET Contained == {k \in Keys : ~SS_ContainsUB(m_sparseSet, k) /\ SS_Contains(m_sparseSet, k)}
        IN /\ \A k \in Keys :
                  ~SS_GetUB(m_sparseSet, k) =>
                      (k \in Contained <=> SS_Get(m_sparseSet, k) < PA_Size(m_denseArray))
           /\ \A k1, k2 \in Contained :
                  SS_Get(m_sparseSet, k1) = SS_Get(m_sparseSet, k2) => k1 = k2
           /\ {SS_Get(m_sparseSet, k) : k \in Contained} = 0 .. PA_Size(m_denseArray) - 1

-----------------------------------------------------------------------------
(* Properties of SparseSet with any values and constructor arguments        *)
(* (checked under SpecVal).                                                 *)

\* C25: Get(k) gives the absent result exactly when Contains(k) is false,
\* whatever value a contained key maps to (0 and the largest Value included).
C25_GetAbsentIffNotContained ==
    (last.op = "Get" /\ fault = "none") =>
        (last.ret = Returned(InvalidValue) <=> ~SS_Contains(last.pre, last.key))

\* C27: no Insert, Remove or Clear that completes lowers Capacity().
C27_CapacityNeverShrinks ==
    [][fault' # "ub" => SS_Capacity(m_sparseSet') >= SS_Capacity(m_sparseSet)]_vars

\* a Clear of a set whose dense array had grown (2 is reached only from 1)
C27_Witness ==
    /\ last.op = "Clear"
    /\ m_sparseSet.growFactor = <<2, 1>>
    /\ SS_Size(last.pre) = 2
    /\ SS_Capacity(m_sparseSet) = 2

\* C29: Insert(k, v) of a key that is not contained stores k at dense
\* position Size()-before, returns that position, adds one to Size(), makes
\* Contains(k) true with Get(k) = v and leaves every other contained key's
\* value as it was.
C29_InsertOfAbsentKey ==
    (last.op = "Insert" /\ ~last.hit /\ ~SS_Contains(last.pre, last.key)) =>
        /\ fault = "none"
        /\ SS_Size(m_sparseSet) = SS_Size(last.pre) + 1
        /\ m_sparseSet.dense[SS_Size(last.pre) + 1] = last.key
        /\ last.ret = Returned(SS_Size(last.pre))
        /\ SS_Contains(m_sparseSet, last.key)
        /\ SS_Get(m_sparseSet, last.key) = last.arg
        /\ \A k \in ValKeys \ {last.key} :
               SS_Contains(last.pre, k) =>
                   /\ SS_Contains(m_sparseSet, k)
                   /\ SS_Get(m_sparseSet, k) = SS_Get(last.pre, k)

-----------------------------------------------------------------------------
(* Properties of DenseArray (checked under SpecDA).                         *)

\* C21: the record sequence and the position-to-key sequence have the same
\* length, the key-to-position map has that many entries, and
\* keyToIndex[key] = i exactly when indexToKey[i] = key; the keys of the map
\* are the keys added and not removed, each with its record.
C21_MapsAreInverse ==
    LET da == m_denseArray
    IN /\ Len(da.components) = Len(da.indexToKey)
       /\ Cardinality(DOMAIN da.keyToIndex) = Len(da.components)
       /\ \A key \in DenseKeys, i \in 0 .. MaxDenseKey + 1 :
              (key \in DOMAIN da.keyToIndex /\ da.keyToIndex[key] = i)
                  <=> (i < Len(da.indexToKey) /\ da.indexToKey[i + 1] = key)
       /\ DOMAIN da.keyToIndex = DOMAIN live
       /\ \A key \in DOMAIN live : da.components[da.keyToIndex[key] + 1] = live[key]

\* a Remove of a key that was not at the last position of a store of three
C21_Witness ==
    /\ last.op = "Remove"
    /\ fault = "none"
    /\ Len(last.pre.components) = 3
    /\ last.pre.keyToIndex[last.key] = 0
    /\ DA_Size(m_denseArray) = 2

\* C22: GetByIndex(p) and GetKeyAtIndex(p) return the record and the key at
\* position p when p < Size() and fail when p >= Size(); the DenseArray is
\* unchanged either way.
C22_PositionAccess ==
    last.op \in {"GetByIndex", "GetKeyAtIndex"} =>
        /\ m_denseArray = last.pre
        /\ IF last.key < DA_Size(last.pre)
           THEN /\ fault = "none"
                /\ last.op = "GetByIndex" =>
                       last.ret = Record(last.pre.components[last.key + 1], last.key)
                /\ last.op = "GetKeyAtIndex" =>
                       last.ret = Returned(last.pre.indexToKey[last.key + 1])
           ELSE fault = "assert"

\* a GetByIndex of the position Size() of a non-empty store failed
C22_Witness ==
    /\ last.op = "GetByIndex"
    /\ fault = "assert"
    /\ DA_Size(last.pre) > 0
    /\ last.key = DA_Size(last.pre)

-----------------------------------------------------------------------------
(* Properties of IndirectionTable (checked under SpecIT).                   *)

\* the slots whose indirection entry is not Undirected / is Undirected
LiveSlots(t) == {i \in 0 .. IT_Size(t) - 1 : t.indirection[i + 1] # Undirected}
ErasedSlots(t) == {i \in 0 .. IT_Size(t) - 1 : t.indirection[i + 1] = Undirected}

DenseSizeIsLiveCount(t) == IT_DenseSize(t) = Cardinality(LiveSlots(t))

\* C15: a Next, an Erase of a live slot, a Put or a Clear made in a state where
\* DenseSize() is the number of slots whose entry is not Undirected leads to
\* such a state again (so every state reached by such calls is one), and an
\* Erase of a live slot decreases DenseSize() by one.
C15_DenseSizeIsLiveCount ==
    ( /\ fault = "none"
      /\ last.op \in {"Next", "Erase", "Put", "Clear"}
      /\ last.op = "Erase" => last.key \in LiveSlots(last.pre)
      /\ DenseSizeIsLiveCount(last.pre) )
    => /\ DenseSizeIsLiveCount(Table)
       /\ last.op = "Erase" => IT_DenseSize(Table) = IT_DenseSize(last.pre) - 1

\* C16: a Next made while an erased identifier awaits reuse returns one of the
\* awaiting identifiers and leaves Size() as it is; a Next made while none
\* awaits reuse appends a slot, Size() growing by exactly one.
C16_NextReusesBeforeMinting ==
    (fault = "none" /\ last.op = "Next") =>
        IF Awaiting(last.was) # {}
        THEN /\ last.ret.val \in Awaiting(last.was)
             /\ IT_Size(Table) = IT_Size(last.pre)
        ELSE IT_Size(Table) = IT_Size(last.pre) + 1

\* C17: the identifier r returned by Next is the slot the call made live:
\* r < Size() after the call, At(r) is the dense size before the call, and r
\* was not a live slot before the call.
C17_NextReturnsTheNewSlot ==
    (fault = "none" /\ last.op = "Next") =>
        /\ last.ret.val < IT_Size(Table)
        /\ IT_At(Table, last.ret.val).ok
        /\ IT_At(Table, last.ret.val).ret = Some(IT_DenseSize(last.pre))
        /\ last.ret.val \notin LiveSlots(last.pre)

NoDuplicates(seq) == \A i, j \in DOMAIN seq : seq[i] = seq[j] => i = j

\* C18: Erase of an identifier that Next never returned, or that is already
\* erased, fails and leaves the table as it was; no identifier is twice on the
\* free list, and Next never returns an identifier that is still held.
C18_EraseRejectsInvalidSlot ==
    /\ (last.op = "Erase" /\ ~last.hit) => (fault = "assert" /\ Table = last.pre)
    /\ NoDuplicates(m_freeList)
    /\ (fault = "none" /\ last.op = "Next") => last.ret.val \notin Held(last.was)

\* C19: At(slot) leaves the entries, the free list and DenseSize() as they
\* were; for slot < Size() it returns the slot's current entry (a dense index,
\* or Undirected), and for slot >= Size() it fails.
C19_AtReadsWithoutMutation ==
    last.op = "At" =>
        /\ Table = last.pre
        /\ IF last.key < IT_Size(last.pre)
           THEN /\ fault = "none"
                /\ last.ret = Optional(last.pre.indirection[last.key + 1])
                /\ last.ret.kind = "nullopt" <=> last.key \in ErasedSlots(last.pre)
           ELSE fault = "assert"

\* an At of an erased slot, after a recycle, returned Undirected
C19_Witness ==
    /\ last.op = "At"
    /\ fault = "none"
    /\ last.ret.kind = "nullopt"
    /\ LiveSlots(Table) # {}
    /\ IT_DenseSize(Table) > 1

\* C20: Clear leaves the table in the state of a freshly constructed one
\* (Size() = 0, DenseSize() = 0, empty free list), whatever state it is called
\* in, and the Next that follows it returns slot 0, mapped to dense index 0.
C20_ClearIsFullReset ==
    [][ /\ last'.op = "Clear" =>
              /\ Table' = NewIndirectionTable
              /\ IT_Size(Table') = 0 /\ IT_DenseSize(Table') = 0 /\ m_freeList' = <<>>
        /\ (last.op = "Clear" /\ last'.op = "Next") =>
              /\ last'.ret.val = 0
              /\ IT_At(Table', 0).ret = Some(0)
              /\ Table' = IT_Next(NewIndirectionTable).t ]_vars

\* a Clear of a table that had live slots, erased slots and a free list
C20_Witness ==
    /\ last.op = "Clear"
    /\ last.pre.freeList # <<>>
    /\ LiveSlots(last.pre) # {}
    /\ IT_DenseSize(last.pre) > 1

-----------------------------------------------------------------------------
(* Properties of SparseSet's dense array, iteration and bucket maintenance  *)
(* (checked under SpecSS).                                                  *)

Reverse(seq) == [i \in 1 .. Len(seq) |-> seq[Len(seq) + 1 - i]]

Range(seq) == {seq[i] : i \in DOMAIN seq}

\* C26: iterating from begin() to end() visits Size() keys, the i-th being
\* dense[i]; every key inserted and not removed is visited exactly once and
\* no other key; stepping back from end() visits them in reverse order.
C26_IterationVisitsLiveKeys ==
    fault = "none" =>
        LET visited == IterateForward(m_sparseSet, IteratorBegin(m_sparseSet))
        IN /\ Len(visited) = SS_Size(m_sparseSet)
           /\ visited = m_sparseSet.dense
           /\ Range(visited) = DOMAIN live
           /\ NoDuplicates(visited)
           /\ IterateBackward(m_sparseSet, IteratorEnd(m_sparseSet)) = Reverse(visited)

\* how often offset o occurs among the keys of a bucket sequence
Occurrences(keys, o) == Cardinality({i \in DOMAIN keys : keys[i] = o})

\* C28: when a Remove leaves the key's bucket under half full and the bucket
\* of the next page exists, the two are merged (sizes summing to at most the
\* capacity; the next bucket leaves the page map) or rebalanced to
\* floor(total/2) and the rest; the entries of the two buckets are those
\* from before without the removed one, and every key inserted and not
\* removed is still found by Contains.
C28_MergeKeepsKeysReachable ==
    [][LET bo == GetBucketIndexAndOffset(last'.key)
           bi == bo[1]
       IN (/\ last'.op = "Remove"
           /\ fault' = "none"
           /\ bi \in ExistingBuckets(m_sparseSet)
           /\ BucketContains(m_sparseSet.sparse[bi], bo[2])
           /\ BucketSize(m_sparseSet.sparse[bi]) - 1 < HalfCapacity
           /\ (bi + 1) \in ExistingBuckets(m_sparseSet))
          => LET before == m_sparseSet.sparse[bi].keys \o m_sparseSet.sparse[bi + 1].keys
                 total == Len(before) - 1
                 merged == total <= SPARSE_BUCKET_SIZE
                 after == IF merged THEN m_sparseSet'.sparse[bi].keys
                          ELSE m_sparseSet'.sparse[bi].keys \o m_sparseSet'.sparse[bi + 1].keys
             IN /\ merged => /\ (bi + 1) \notin DOMAIN m_sparseSet'.sparse
                             /\ BucketSize(m_sparseSet'.sparse[bi]) = total
                /\ ~merged => /\ BucketSize(m_sparseSet'.sparse[bi]) = total \div 2
                              /\ BucketSize(m_sparseSet'.sparse[bi + 1]) = total - total \div 2
                /\ \A o \in 0 .. SPARSE_BUCKET_SIZE - 1 :
                       Occurrences(after, o) =
                           Occurrences(before, o) - (IF o = bo[2] THEN 1 ELSE 0)
                /\ \A k \in DOMAIN live' : SS_Contains(m_sparseSet', k)]_vars

\* C30: with every Insert passing Size() as the value, dense[0 .. Size())
\* lists exactly the contained keys, none twice, and dense[Get(k)] = k for
\* every contained key k.
C30_DenseListsContainedKeys ==
    fault = "none" =>
        LET Contained == {k \in Keys : SS_Contains(m_sparseSet, k)}
        IN /\ Len(m_sparseSet.dense) = SS_Size(m_sparseSet)
           /\ Range(m_sparseSet.dense) = Contained
           /\ NoDuplicates(m_sparseSet.dense)
           /\ \A k \in Contained :
                  /\ SS_Get(m_sparseSet, k) < SS_Size(m_sparseSet)
                  /\ m_sparseSet.dense[SS_Get(m_sparseSet, k) + 1] = k

-----------------------------------------------------------------------------
(* Further properties of IndirectionTable (checked under SpecIT).           *)

\* the free list holds exactly the slots whose entry is Undirected, each once
FreeListIsErasedSlots(t) ==
    /\ Range(t.freeList) = ErasedSlots(t)
    /\ NoDuplicates(t.freeList)

\* C31: a Next, an Erase of a live slot, a Put on an allocated slot or a Clear
\* made in a state where the free list holds exactly the slots whose entry is
\* Undirected, each at most once, leads to such a state again (so every state
\* reached by such calls is one).
C31_FreeListIsErasedSlots ==
    ( /\ fault = "none"
      /\ last.op \in {"Next", "Erase", "Put", "Clear"}
      /\ last.op = "Erase" => last.key \in LiveSlots(last.pre)
      /\ last.op = "Put" => last.key < IT_Size(last.pre)
      /\ FreeListIsErasedSlots(last.pre) )
    => FreeListIsErasedSlots(Table)

-----------------------------------------------------------------------------
(* Further properties of SparseSet with any values and constructor          *)
(* arguments (checked under SpecVal).                                       *)

\* C32: whatever the constructor arguments, an Insert never writes m_dense at
\* or beyond Capacity(), Size() <= Capacity() holds after it, and an Insert of
\* a new key made with Size() = Capacity() leaves Capacity() >= Size()-before
\* + 1.
C32_InsertStaysWithinCapacity ==
    last.op = "Insert" =>
        /\ fault # "ub"
        /\ SS_Size(m_sparseSet) <= SS_Capacity(m_sparseSet)
        /\ (/\ ~SS_Contains(last.pre, last.key)
            /\ SS_Size(last.pre) = SS_Capacity(last.pre))
           => SS_Capacity(m_sparseSet) >= SS_Size(last.pre) + 1

-----------------------------------------------------------------------------
(* Bucket entries against Size() (checked under SpecFill).                  *)

RECURSIVE SumOfBucketSizes(_, _)
\* the sizes of the buckets of the pages in S, added up
SumOfBucketSizes(sparse, S) ==
    IF S = {} THEN 0
    ELSE LET i == CHOOSE j \in S : TRUE
         IN BucketSize(sparse[i]) + SumOfBucketSizes(sparse, S \ {i})

\* C33: the sizes of all existing buckets add up to Size().
C33_BucketEntriesAreSize ==
    fault = "none" =>
        SumOfBucketSizes(m_sparseSet.sparse, ExistingBuckets(m_sparseSet)) = SS_Size(m_sparseSet)

-----------------------------------------------------------------------------
(* Further properties of PackedArray (checked under Spec).                  *)

\* C34: after every Add and Remove that completes, the sparse index and the
\* packed store hold the same number of keys.
C34_SizesAgree ==
    (fault = "none" /\ last.op \in {"Add", "Remove"}) =>
        SS_Size(m_sparseSet) = DA_Size(m_denseArray)

\* C35: no Add, Remove or Get fails an assertion of the DenseArray.
C35_NoDenseArrayAssertFails ==
    fault # "assert"

-----------------------------------------------------------------------------
(* Clear of a SparseSet (checked under SpecVal).                            *)

\* C36: Clear leaves Size() = 0, no bucket in the page map and Contains(k)
\* false for every key, keeps Capacity(), and leaves the object in the state
\* of one freshly constructed with that capacity (and growth factor), so
\* every later call behaves as on a fresh one.
C36_ClearGivesFreshIndex ==
    [][last'.op = "Clear" =>
          /\ SS_Size(m_sparseSet') = 0
          /\ DOMAIN m_sparseSet'.sparse = {}
          /\ \A k \in ValKeys :
                ~SS_ContainsUB(m_sparseSet', k) /\ ~SS_Contains(m_sparseSet', k)
          /\ SS_Capacity(m_sparseSet') = SS_Capacity(m_sparseSet)
          /\ m_sparseSet' = NewSparseSet(SS_Capacity(m_sparseSet), m_sparseSet.growFactor)]_vars

\* a Clear of a set that held keys of both pages
C36_Witness ==
    /\ last.op = "Clear"
    /\ Cardinality(ExistingBuckets(last.pre)) = 2
    /\ SS_Size(last.pre) >= 2
    /\ SS_Size(m_sparseSet) = 0

=============================================================================
